---- MODULE Spec2Model ----
(***************************************************************************)
(* A model of anubistats: the boolean query parser (anubistats-query),     *)
(* the index build and query REPL over the columnar store (bin/index.rs,   *)
(* bin/query.rs) and the earlier build and REPL over a postings blob with  *)
(* a sorted offset index (main.rs, repl.rs).                               *)
(*                                                                         *)
(* Strings are sequences of one-character strings, so that trimming,       *)
(* prefix stripping, splitting and case folding are computed character by  *)
(* character as the code does.                                             *)
(***************************************************************************)
EXTENDS Integers, Sequences, FiniteSets, TLC

VARIABLES
    input,      \* parser harness: the text handed to parse
    typed,      \* parser harness: how many pieces of text were typed
    parsed,     \* parser harness: the outcome of parse(input)
    stream,     \* the records read_datasets has yielded so far
    postings_lists,         \* bin/index.rs: word -> posting list (BTreeMap)
    builders,               \* bin/index.rs: the column builders, one row per record
    stored_fields_parquet,  \* the file stored_fields.parquet
    postings_lists_parquet, \* the file postings_lists.parquet
    phase,      \* which step the running binaries have reached
    session,    \* the query REPL: "running" or "panicked"
    out,        \* the query REPL: what the last line printed
    roaring_id,             \* main.rs: the id counter
    postings_lists_bin,     \* the file postings_lists.bin
    postings_lists_offsets  \* the file postings_lists_offsets.json

parser_vars == <<input, typed, parsed>>
index_vars == <<postings_lists, builders, stored_fields_parquet,
                postings_lists_parquet>>
main_vars == <<roaring_id, postings_lists_bin, postings_lists_offsets>>
repl_vars == <<session, out>>

vars == <<input, typed, parsed, stream, postings_lists, builders,
          stored_fields_parquet, postings_lists_parquet, phase, session, out,
          roaring_id, postings_lists_bin, postings_lists_offsets>>

----------------------------------------------------------------------------
(* Characters.                                                             *)

Whitespace == {" "}
Lowercase == {"a", "b", "c", "d", "n", "o", "r"}
Uppercase == {"A", "B", "D", "N", "O", "R"}
Alphanumeric == Lowercase \cup Uppercase

\* The byte of each character (the strings are ASCII).
CharCode ==
    (" " :> 32) @@ ("(" :> 40) @@ (")" :> 41) @@
    ("A" :> 65) @@ ("B" :> 66) @@ ("D" :> 68) @@ ("N" :> 78) @@ ("O" :> 79) @@
    ("R" :> 82) @@
    ("a" :> 97) @@ ("b" :> 98) @@ ("c" :> 99) @@ ("d" :> 100) @@ ("n" :> 110) @@
    ("o" :> 111) @@ ("r" :> 114)

\* char::to_lowercase
LowerOf ==
    ("A" :> "a") @@ ("B" :> "b") @@ ("D" :> "d") @@ ("N" :> "n") @@ ("O" :> "o") @@
    ("R" :> "r")

\* str::to_lowercase
to_lowercase(w) ==
    [i \in 1..Len(w) |-> IF w[i] \in Uppercase THEN LowerOf[w[i]] ELSE w[i]]

\* The order of str and of [u8]: lexicographic by byte.
RECURSIVE str_lt(_, _)
str_lt(x, y) ==
    IF y = <<>> THEN FALSE
    ELSE IF x = <<>> THEN TRUE
    ELSE IF Head(x) = Head(y) THEN str_lt(Tail(x), Tail(y))
    ELSE CharCode[Head(x)] < CharCode[Head(y)]

\* char::is_alphanumeric
is_alphanumeric(c) == c \in Alphanumeric

\* char::is_whitespace
is_whitespace(c) == c \in Whitespace

\* The least member of a non-empty set of indices.
first_index(I) == CHOOSE i \in I : \A j \in I : i <= j

\* The index of the first character of s that is not alphanumeric, 0 for None
\* (str::find with the predicate !c.is_alphanumeric()).
find_non_alphanumeric(s) ==
    LET I == {i \in 1..Len(s) : ~is_alphanumeric(s[i])}
    IN  IF I = {} THEN 0 ELSE first_index(I)

\* The index of the first whitespace character of s, 0 when there is none.
find_whitespace(s) ==
    LET I == {i \in 1..Len(s) : is_whitespace(s[i])}
    IN  IF I = {} THEN 0 ELSE first_index(I)

\* The index of the first character of s that is not whitespace, 0 for none.
find_non_whitespace(s) ==
    LET I == {i \in 1..Len(s) : ~is_whitespace(s[i])}
    IN  IF I = {} THEN 0 ELSE first_index(I)

\* str::trim_start
trim_start(s) ==
    LET i == find_non_whitespace(s)
    IN  IF i = 0 THEN <<>> ELSE SubSeq(s, i, Len(s))

\* str::trim_end
trim_end(s) ==
    IF \E i \in 1..Len(s) : ~is_whitespace(s[i])
    THEN SubSeq(s, 1, CHOOSE i \in 1..Len(s) :
                        ~is_whitespace(s[i])
                        /\ \A j \in (i + 1)..Len(s) : is_whitespace(s[j]))
    ELSE <<>>

\* str::trim
trim(s) == trim_end(trim_start(s))

\* str::split_whitespace: the maximal runs of non-whitespace characters.
RECURSIVE split_whitespace(_)
split_whitespace(s) ==
    LET t == trim_start(s)
        i == find_whitespace(t)
    IN  IF t = <<>> THEN <<>>
        ELSE IF i = 0 THEN <<t>>
        ELSE <<SubSeq(t, 1, i - 1)>> \o split_whitespace(SubSeq(t, i, Len(t)))

\* str::starts_with
starts_with(s, p) == Len(s) >= Len(p) /\ SubSeq(s, 1, Len(p)) = p

\* What remains of s after the prefix p (str::strip_prefix, when it is Some).
after_prefix(s, p) == SubSeq(s, Len(p) + 1, Len(s))

----------------------------------------------------------------------------
(* The query AST and the recursive-descent parser (anubistats-query).      *)

Word(w) == [kind |-> "Word", text |-> w]
And(l, r) == [kind |-> "And", lhs |-> l, rhs |-> r]
Or(l, r) == [kind |-> "Or", lhs |-> l, rhs |-> r]

ParseError == [ok |-> FALSE]
Ok(rest, q) == [ok |-> TRUE, rest |-> rest, query |-> q]

OR == <<"O", "R">>
AND == <<"A", "N", "D">>

RECURSIVE primary_expr(_), or_expr(_), and_expr(_)

expr(s) == and_expr(s)

\* primary_expr accepting a parenthesis that is never closed.
primary_expr_no_close(s0) ==
    LET s == trim_start(s0)
    IN  IF starts_with(s, <<"(">>)
        THEN LET inner == expr(after_prefix(s, <<"(">>))
             IN  IF ~inner.ok
                 THEN ParseError
                 ELSE LET rest == trim_start(inner.rest)
                      IN  IF ~starts_with(rest, <<")">>)
                          THEN Ok(rest, inner.query)
                          ELSE Ok(SubSeq(rest, 2, Len(rest)), inner.query)
        ELSE LET idx == find_non_alphanumeric(s)
             IN  IF idx = 0
                 THEN Ok(<<>>, Word(s))
                 ELSE Ok(SubSeq(s, idx, Len(s)), Word(SubSeq(s, 1, idx - 1)))

\* primary_expr handing back the rest of the text with the ')' still in it.
primary_expr_keep_close(s0) ==
    LET s == trim_start(s0)
    IN  IF starts_with(s, <<"(">>)
        THEN LET inner == expr(after_prefix(s, <<"(">>))
             IN  IF ~inner.ok
                 THEN ParseError
                 ELSE LET rest == trim_start(inner.rest)
                      IN  IF ~starts_with(rest, <<")">>)
                          THEN ParseError
                          ELSE Ok(rest, inner.query)
        ELSE LET idx == find_non_alphanumeric(s)
             IN  IF idx = 0
                 THEN Ok(<<>>, Word(s))
                 ELSE Ok(SubSeq(s, idx, Len(s)), Word(SubSeq(s, 1, idx - 1)))

primary_expr(s0) ==
    LET s == trim_start(s0)
    IN  IF starts_with(s, <<"(">>)
        THEN LET inner == expr(after_prefix(s, <<"(">>))
             IN  IF ~inner.ok
                 THEN ParseError
                 ELSE LET rest == trim_start(inner.rest)
                      IN  IF ~starts_with(rest, <<")">>)
                          THEN ParseError
                          ELSE Ok(SubSeq(rest, 2, Len(rest)), inner.query)
        ELSE LET idx == find_non_alphanumeric(s)
             IN  IF idx = 0
                 THEN Ok(<<>>, Word(s))
                 ELSE Ok(SubSeq(s, idx, Len(s)), Word(SubSeq(s, 1, idx - 1)))

\* or_expr with its right operand parsed by expr: OR binding looser than AND.
or_expr_rhs_expr(s0) ==
    LET p == primary_expr(s0)
    IN  IF ~p.ok
        THEN ParseError
        ELSE LET s == trim_start(p.rest)
             IN  IF starts_with(s, OR)
                 THEN LET r == expr(after_prefix(s, OR))
                      IN  IF ~r.ok THEN ParseError
                          ELSE Ok(r.rest, Or(p.query, r.query))
                 ELSE Ok(s, p.query)

or_expr(s0) ==
    LET p == primary_expr(s0)
    IN  IF ~p.ok
        THEN ParseError
        ELSE LET s == trim_start(p.rest)
             IN  IF starts_with(s, OR)
                 THEN LET r == or_expr(after_prefix(s, OR))
                      IN  IF ~r.ok THEN ParseError
                          ELSE Ok(r.rest, Or(p.query, r.query))
                 ELSE Ok(s, p.query)

and_expr(s0) ==
    LET o == or_expr(s0)
    IN  IF ~o.ok
        THEN ParseError
        ELSE LET s == trim_start(o.rest)
             IN  IF starts_with(s, AND)
                 THEN LET r == and_expr(after_prefix(s, AND))
                      IN  IF ~r.ok THEN ParseError
                          ELSE Ok(r.rest, And(o.query, r.query))
                 ELSE Ok(s, o.query)

\* The outcome of parse: the query, or the parse error.
Parsed(q) == [state |-> "ok", query |-> q]
Failed == [state |-> "err"]
NotParsed == [state |-> "none"]

parse(s) ==
    LET e == expr(s)
    IN  IF ~e.ok THEN Failed
        ELSE IF trim_end(e.rest) = <<>> THEN Parsed(e.query) ELSE Failed

----------------------------------------------------------------------------
(* The parser harness: a text is typed piece by piece and handed to parse. *)

MaxPieces == 5

other_vars == <<stream, index_vars, main_vars, repl_vars, phase>>

\* Nothing has been read, built or written.
Idle ==
    /\ stream = <<>>
    /\ postings_lists = <<>>
    /\ builders = <<>>
    /\ stored_fields_parquet = <<>>
    /\ postings_lists_parquet = <<>>
    /\ session = "running"
    /\ out = [kind |-> "none"]
    /\ roaring_id = 0
    /\ postings_lists_bin = <<>>
    /\ postings_lists_offsets = <<>>

Pieces ==
    { <<"a">>, <<"b">>, <<"c">>, <<" ">>, <<"(">>, <<")">>,
      OR, AND, <<" ">> \o OR \o <<" ">>, <<" ">> \o AND \o <<" ">> }

ParserInit ==
    /\ input = <<>>
    /\ typed = 0
    /\ parsed = NotParsed
    /\ phase = "parse"
    /\ Idle

Type(p) ==
    /\ parsed = NotParsed
    /\ typed < MaxPieces
    /\ input' = input \o p
    /\ typed' = typed + 1
    /\ UNCHANGED <<parsed, other_vars>>

Parse ==
    /\ parsed = NotParsed
    /\ parsed' = parse(input)
    /\ UNCHANGED <<input, typed, other_vars>>

Clear ==
    /\ parsed # NotParsed
    /\ input' = <<>>
    /\ typed' = 0
    /\ parsed' = NotParsed
    /\ UNCHANGED other_vars

ParserNext ==
    \/ \E p \in Pieces : Type(p)
    \/ Parse
    \/ Clear

ParserSpec == ParserInit /\ [][ParserNext]_vars

----------------------------------------------------------------------------
(* The dataset (lib.rs): the records read_datasets yields, of which the    *)
(* builds read id, title, score and time.                                  *)

None == [some |-> FALSE]
Some(v) == [some |-> TRUE, v |-> v]

Record(id, title, score, time) ==
    [id |-> id, title |-> title, score |-> score, time |-> time]

Records ==
    { Record(11, <<"a", " ", "b">>, Some(3), Some(0)),
      Record(12, <<"A", " ", " ", "a">>, None, Some(86400)),
      Record(13, <<" ">>, Some(1), Some(86401)),
      Record(14, <<"B", " ", "d">>, Some(2), None),
      Record(15, <<" ", "c", " ", "a", " ">>, Some(4), Some(172800)),
      Record(16, <<"b", " ", "A">>, Some(5), Some(259200)),
      Record(17, <<"a", " ", "b">>, Some(7), Some(5)) }

\* A dataset holds each story once: the records read so far.
already_read(record) == \E i \in 1..Len(stream) : stream[i] = record

MaxDocs == 5

----------------------------------------------------------------------------
(* Posting lists: RoaringBitmap, a set of u32 with an ordered push, and    *)
(* its serialized form, modelled as the cardinality followed by the ids in *)
(* ascending order.                                                        *)

max_of(S) == CHOOSE m \in S : \A x \in S : x <= m
min_of(S) == CHOOSE m \in S : \A x \in S : m <= x

\* Whether RoaringBitmap::push(value) inserts: only a value greater than the
\* current maximum is pushed.
push_inserts(bitmap, value) == bitmap = {} \/ value > max_of(bitmap)

\* The bitmap after RoaringBitmap::push(value).
push(bitmap, value) ==
    IF push_inserts(bitmap, value) THEN bitmap \cup {value} ELSE bitmap

RECURSIVE ascending(_)
ascending(S) ==
    IF S = {} THEN <<>> ELSE <<min_of(S)>> \o ascending(S \ {min_of(S)})

\* RoaringBitmap::serialize_into
serialize(bitmap) == <<Cardinality(bitmap)>> \o ascending(bitmap)

\* RoaringBitmap::serialized_size
serialized_size(bitmap) == 1 + Cardinality(bitmap)

\* RoaringBitmap::deserialize_from
deserialize_from(bytes) == {bytes[i] : i \in 2..(1 + bytes[1])}

\* The words of a set in the order of a BTreeMap<String, _>.
RECURSIVE sorted_words(_)
sorted_words(W) ==
    IF W = {} THEN <<>>
    ELSE LET w == CHOOSE x \in W : \A y \in W \ {x} : str_lt(x, y)
         IN  <<w>> \o sorted_words(W \ {w})

----------------------------------------------------------------------------
(* bin/index.rs: one pass over the dataset, then the two parquet files.    *)

\* postings_lists.entry(word).or_insert_with(RoaringBitmap::new).push(id)
push_word(lists, word, id) ==
    IF word \in DOMAIN lists
    THEN [lists EXCEPT ![word] = push(@, id)]
    ELSE lists @@ (word :> push({}, id))

\* The loop over record.title.split_whitespace() of bin/index.rs.
RECURSIVE add_title_words(_, _, _)
add_title_words(lists, words, id) ==
    IF words = <<>> THEN lists
    ELSE LET word == to_lowercase(Head(words))
         IN  add_title_words(
                 IF word # <<>> THEN push_word(lists, word, id) ELSE lists,
                 Tail(words), id)

\* OffsetDateTime::from_unix_timestamp(t).format([year][month][day]), for the
\* timestamps of January 1970.
format_date(unixtime) == <<1970, 1, 1 + (unixtime \div 86400)>>

\* The row the column builders get for a record.
stored_row(id, record) ==
    [id |-> id, doc_id |-> record.id, title |-> record.title,
     date |-> IF record.time.some THEN Some(format_date(record.time.v)) ELSE None,
     score |-> record.score]

\* The body of the loop over read_datasets().enumerate().
IndexRecord(record) ==
    /\ phase = "index"
    /\ Len(stream) < MaxDocs
    /\ ~already_read(record)
    /\ LET id == Len(stream)
       IN  /\ postings_lists' =
                 add_title_words(postings_lists, split_whitespace(record.title), id)
           /\ builders' = Append(builders, stored_row(id, record))
    /\ stream' = Append(stream, record)
    /\ UNCHANGED <<stored_fields_parquet, postings_lists_parquet, phase,
                   parser_vars, main_vars, repl_vars>>

\* The rows of postings_lists.parquet: a word and its serialized posting
\* list, in the order of the BTreeMap.
word_rows(lists) ==
    LET words == sorted_words(DOMAIN lists)
    IN  [i \in 1..Len(words) |->
            [word |-> words[i], postings_list |-> serialize(lists[words[i]])]]

\* The end of the dataset: both files are written.
IndexWrite ==
    /\ phase = "index"
    /\ stored_fields_parquet' = builders
    /\ postings_lists_parquet' = word_rows(postings_lists)
    /\ phase' = "query"
    /\ UNCHANGED <<stream, postings_lists, builders, parser_vars, main_vars,
                   repl_vars>>

----------------------------------------------------------------------------
(* The layout of postings_lists.parquet: row groups of at most             *)
(* RowGroupRows rows, each split into pages of at most PageRows rows; the  *)
(* column index holds the least and the greatest word of each page.        *)

RowGroupRows == 3
PageRows == 2

\* How many chunks of at most size rows n rows make.
chunks(n, size) == (n + size - 1) \div size

\* metadata.row_group(g).num_rows(), g counted from 0.
row_group_num_rows(rows, g) ==
    IF (g + 1) * RowGroupRows <= Len(rows) THEN RowGroupRows
    ELSE Len(rows) - g * RowGroupRows

\* The rows of row group g.
row_group_rows(rows, g) ==
    SubSeq(rows, g * RowGroupRows + 1, g * RowGroupRows + row_group_num_rows(rows, g))

\* offset_indexes[g][word]: the first row of each page within its row group.
offset_index(rows, g) ==
    [p \in 1..chunks(row_group_num_rows(rows, g), PageRows) |->
        [first_row_index |-> (p - 1) * PageRows]]

\* page_indexes[g][word]: the (min, max) statistics of each page.
page_index(rows, g) ==
    LET group == row_group_rows(rows, g)
        n == Len(group)
    IN  [p \in 1..chunks(n, PageRows) |->
            [min |-> group[(p - 1) * PageRows + 1].word,
             max |-> group[IF p * PageRows <= n THEN p * PageRows ELSE n].word]]


----------------------------------------------------------------------------
(* bin/query.rs: the page-pruning lookup, the evaluator, the retrieval of  *)
(* stored fields, the aggregation and the REPL.                            *)

\* page_cmp taking a page to lie below a needle that equals its max.
page_cmp_max_exclusive(page, needle) ==
    IF str_lt(needle, page.min) THEN "Greater"
    ELSE IF ~str_lt(needle, page.max) THEN "Less"
    ELSE "Equal"

\* The comparison closure handed to binary_search_by: how a page's
\* (min, max) range lies relative to the needle.
page_cmp(page, needle) ==
    IF str_lt(needle, page.min) THEN "Greater"
    ELSE IF str_lt(page.max, needle) THEN "Less"
    ELSE "Equal"

\* slice::binary_search_by over pages[left + 1 .. right]: the (1-based) index
\* of a page that compares Equal, 0 for Err.
RECURSIVE binary_search_by(_, _, _, _)
binary_search_by(pages, needle, left, right) ==
    IF left >= right THEN 0
    ELSE LET mid == left + ((right - left) \div 2)
             cmp == page_cmp(pages[mid + 1], needle)
         IN  IF cmp = "Less" THEN binary_search_by(pages, needle, mid + 1, right)
             ELSE IF cmp = "Greater" THEN binary_search_by(pages, needle, left, mid)
             ELSE mid + 1

skip(n) == [select |-> FALSE, row_count |-> n]
select(n) == [select |-> TRUE, row_count |-> n]

\* The selectors one row group adds for the word.
row_group_selectors(rows, g, word) ==
    LET offsets == offset_index(rows, g)
        pages == page_index(rows, g)
        row_group_end == row_group_num_rows(rows, g)
        idx == binary_search_by(pages, word, 0, Len(pages))
    IN  IF idx # 0
        THEN LET select_start == offsets[idx].first_row_index
                 select_end == IF idx + 1 <= Len(offsets)
                               THEN offsets[idx + 1].first_row_index
                               ELSE row_group_end
             IN  << skip(select_start),
                    select(select_end - select_start),
                    skip(row_group_end - select_end) >>
        ELSE << skip(row_group_end) >>

\* The selectors of the row groups g, g + 1, ... of the file.
RECURSIVE selectors_from(_, _, _)
selectors_from(rows, g, word) ==
    IF g >= chunks(Len(rows), RowGroupRows) THEN <<>>
    ELSE row_group_selectors(rows, g, word) \o selectors_from(rows, g + 1, word)

\* RowSelection: the rows of the file, from row at + 1 on, that the selectors
\* select.
RECURSIVE with_row_selection(_, _, _)
with_row_selection(rows, selectors, at) ==
    IF selectors = <<>> THEN <<>>
    ELSE LET first == Head(selectors)
             rest == with_row_selection(rows, Tail(selectors), at + first.row_count)
         IN  IF first.select
             THEN SubSeq(rows, at + 1, at + first.row_count) \o rest
             ELSE rest

\* A reader that applies no row filter to the selected rows.
with_row_filter_dropped(rows, word) == rows

\* RowFilter with the predicate eq_utf8_scalar(words, word).
with_row_filter(rows, word) ==
    LET Eq(row) == row.word = word
    IN  SelectSeq(rows, Eq)

find_postings_list_parquet(word, file) ==
    LET selectors == selectors_from(file, 0, word)
        batch == with_row_filter(with_row_selection(file, selectors, 0), word)
    IN  IF Len(batch) > 0
        THEN deserialize_from(batch[1].postings_list)
        ELSE {}

RECURSIVE eval_query(_, _)

\* eval_query joining the children of an And node with | instead of &.
eval_query_and_as_or(query, file) ==
    IF query.kind = "Word" THEN find_postings_list_parquet(query.text, file)
    ELSE eval_query(query.lhs, file) \cup eval_query(query.rhs, file)

\* eval_query folding the case of a Word before the lookup.
eval_query_case_folded(query, file) ==
    IF query.kind = "Word"
    THEN find_postings_list_parquet(to_lowercase(query.text), file)
    ELSE IF query.kind = "And"
    THEN eval_query(query.lhs, file) \cap eval_query(query.rhs, file)
    ELSE eval_query(query.lhs, file) \cup eval_query(query.rhs, file)

eval_query(query, file) ==
    IF query.kind = "Word" THEN find_postings_list_parquet(query.text, file)
    ELSE IF query.kind = "And"
    THEN eval_query(query.lhs, file) \cap eval_query(query.rhs, file)
    ELSE eval_query(query.lhs, file) \cup eval_query(query.rhs, file)

Document(row) ==
    [roaring_id |-> row.id, doc_id |-> row.doc_id, title |-> row.title]

\* The rows of the stored fields the predicate roaring_ids_filter.contains(id)
\* lets through, in the order of the file.
filtered_rows(roaring_ids_filter, file) ==
    LET Contains(row) == row.id \in roaring_ids_filter
    IN  SelectSeq(file, Contains)

\* retrieve_stored_fields reading the file without the row filter.
retrieve_stored_fields_unfiltered(roaring_ids_filter, file) ==
    [i \in 1..Len(file) |-> Document(file[i])]

retrieve_stored_fields(roaring_ids_filter, file) ==
    LET rows == filtered_rows(roaring_ids_filter, file)
    IN  [i \in 1..Len(rows) |-> Document(rows[i])]

\* RowConverter::convert_columns on the date column: the key of a row.
row_key(date) == IF date.some THEN <<1>> \o date.v ELSE <<0>>

\* StringArray::value(i): the date of a row, empty for a null.
date_value(date) == IF date.some THEN date.v ELSE <<>>

\* group_row overwriting the score of a group seen before instead of adding
\* to it.
group_row_score_overwritten(acc, row) ==
    LET score == IF row.score.some THEN row.score.v ELSE 0
        key == row_key(row.date)
    IN  IF key \in DOMAIN acc.row_to_index
        THEN LET index == acc.row_to_index[key]
             IN  [acc EXCEPT !.score[index] = score,
                             !.count[index] = @ + 1]
        ELSE [row_to_index |-> acc.row_to_index @@ (key :> Len(acc.score) + 1),
              date |-> Append(acc.date, date_value(row.date)),
              score |-> Append(acc.score, score),
              count |-> Append(acc.count, 1)]

\* One row folded into the accumulator of group_scores_by_date.
group_row(acc, row) ==
    LET score == IF row.score.some THEN row.score.v ELSE 0
        key == row_key(row.date)
    IN  IF key \in DOMAIN acc.row_to_index
        THEN LET index == acc.row_to_index[key]
             IN  [acc EXCEPT !.score[index] = @ + score,
                             !.count[index] = @ + 1]
        ELSE [row_to_index |-> acc.row_to_index @@ (key :> Len(acc.score) + 1),
              date |-> Append(acc.date, date_value(row.date)),
              score |-> Append(acc.score, score),
              count |-> Append(acc.count, 1)]

RECURSIVE group_rows(_, _)
group_rows(acc, rows) ==
    IF rows = <<>> THEN acc ELSE group_rows(group_row(acc, Head(rows)), Tail(rows))

group_scores_by_date(roaring_ids_filter, file) ==
    LET acc == group_rows([row_to_index |-> <<>>, date |-> <<>>,
                           score |-> <<>>, count |-> <<>>],
                          filtered_rows(roaring_ids_filter, file))
    IN  [date |-> acc.date, score |-> acc.score, count |-> acc.count]

\* documents.iter().take(5)
DocumentsShown == 5
\* for i in 0..5 over the groups
GroupsShown == 5

take(seq, n) == SubSeq(seq, 1, IF Len(seq) < n THEN Len(seq) ELSE n)

\* The lines typed at the REPL.
QueryLines ==
    { <<"a">>,
      <<"A">>,
      <<" ", "b", " ">>,
      <<"d">>,
      <<>>,
      <<"(", "a">>,
      <<"a", " ">> \o OR \o <<" ", "b">>,
      <<"a", " ">> \o AND \o <<" ", "b">>,
      <<"a", " ">> \o OR \o <<" ", "b", " ">> \o OR \o <<" ", "d">> }

\* What one iteration of the loop over stdin.lines() prints for a query that
\* parsed, and whether it panics in the loop over the first five groups.
answer(query, postings, documents, groups) ==
    [kind |-> "answer",
     query |-> query,
     postings |-> postings,
     count |-> Cardinality(postings),
     documents |-> take(documents, DocumentsShown),
     groups |-> [i \in 1..Len(take(groups.date, GroupsShown)) |->
                    [date |-> groups.date[i], score |-> groups.score[i],
                     count |-> groups.count[i]]],
     panicked |-> Len(groups.date) < GroupsShown]

\* One iteration of the REPL loop of bin/query.rs.
QueryLine(line) ==
    /\ phase = "query"
    /\ session = "running"
    /\ \E query \in {parse(trim(line))} :
          IF query.state = "err"
          THEN /\ out' = [kind |-> "parse error"]
               /\ UNCHANGED session
          ELSE \E postings \in {eval_query(query.query, postings_lists_parquet)} :
               \E printed \in
                   {answer(query.query, postings,
                           retrieve_stored_fields(postings, stored_fields_parquet),
                           group_scores_by_date(postings, stored_fields_parquet))} :
                   /\ out' = printed
                   /\ session' = IF printed.panicked THEN "panicked" ELSE "running"
    /\ UNCHANGED <<stream, index_vars, phase, parser_vars, main_vars>>

----------------------------------------------------------------------------
(* main.rs: the earlier build, which writes the posting lists one after    *)
(* the other into postings_lists.bin and the offset of each into           *)
(* postings_lists_offsets.json.                                            *)

\* The loop over record.title.split_whitespace() of main.rs: the lists, the
\* id counter and whether every assert!(push) held.
RECURSIVE main_title_words(_, _)
main_title_words(acc, words) ==
    IF words = <<>> THEN acc
    ELSE LET word == to_lowercase(Head(words))
             list == IF word \in DOMAIN acc.lists THEN acc.lists[word] ELSE {}
         IN  IF word = <<>> THEN main_title_words(acc, Tail(words))
             ELSE main_title_words(
                      [lists |-> push_word(acc.lists, word, acc.roaring_id),
                       roaring_id |-> acc.roaring_id + 1,
                       asserted |-> acc.asserted
                                    /\ push_inserts(list, acc.roaring_id)],
                      Tail(words))

\* The body of the loop over read_datasets() of main.rs.
MainRecord(record) ==
    /\ phase = "main"
    /\ Len(stream) < MaxDocs
    /\ ~already_read(record)
    /\ \E acc \in {main_title_words([lists |-> postings_lists,
                                       roaring_id |-> roaring_id,
                                       asserted |-> TRUE],
                                      split_whitespace(record.title))} :
          /\ postings_lists' = acc.lists
          /\ roaring_id' = acc.roaring_id
          /\ phase' = IF acc.asserted THEN "main" ELSE "panicked"
    /\ stream' = Append(stream, record)
    /\ UNCHANGED <<builders, stored_fields_parquet, postings_lists_parquet,
                   postings_lists_bin, postings_lists_offsets, parser_vars,
                   repl_vars>>

\* The bytes of the lists of the words, one after the other.
RECURSIVE concat_lists(_, _)
concat_lists(lists, words) ==
    IF words = <<>> THEN <<>>
    ELSE serialize(lists[Head(words)]) \o concat_lists(lists, Tail(words))

\* The offsets the second loop of main.rs records: each word's offset is
\* the sum of the serialized sizes of the lists written before it.
RECURSIVE list_offsets(_, _, _)
list_offsets(lists, words, offset) ==
    IF words = <<>> THEN <<>>
    ELSE (Head(words) :> offset)
         @@ list_offsets(lists, Tail(words),
                         offset + serialized_size(lists[Head(words)]))

\* The end of the dataset: the blob and the offsets are written.
MainWrite ==
    /\ phase = "main"
    /\ postings_lists_bin' =
          concat_lists(postings_lists, sorted_words(DOMAIN postings_lists))
    /\ postings_lists_offsets' =
          list_offsets(postings_lists, sorted_words(DOMAIN postings_lists), 0)
    /\ phase' = "repl"
    /\ UNCHANGED <<stream, postings_lists, builders, stored_fields_parquet,
                   postings_lists_parquet, roaring_id, parser_vars, repl_vars>>

----------------------------------------------------------------------------
(* repl.rs: the lookup in the sorted offset index, and its REPL.           *)

\* offsets.range((Included(query), Unbounded)): the keys from query on, in
\* order.
range_from(offsets, query) ==
    sorted_words({w \in DOMAIN offsets : ~str_lt(w, query)})

NoOffset == [some |-> FALSE]

find_offset_and_length(offsets, query) ==
    LET range == range_from(offsets, query)
    IN  IF Len(range) < 1 THEN NoOffset
        ELSE IF Len(range) < 2 THEN NoOffset
        ELSE IF range[1] = query
        THEN [some |-> TRUE,
              offset |-> offsets[range[1]],
              length |-> offsets[range[2]] - offsets[range[1]]]
        ELSE NoOffset

find_postings_list(word, file, offsets) ==
    LET found == find_offset_and_length(offsets, word)
    IN  IF found.some
        THEN deserialize_from(SubSeq(file, found.offset + 1,
                                     found.offset + found.length))
        ELSE {}

RECURSIVE repl_eval_query(_, _, _)
repl_eval_query(query, file, offsets) ==
    IF query.kind = "Word" THEN find_postings_list(query.text, file, offsets)
    ELSE IF query.kind = "And"
    THEN repl_eval_query(query.lhs, file, offsets)
         \cap repl_eval_query(query.rhs, file, offsets)
    ELSE repl_eval_query(query.lhs, file, offsets)
         \cup repl_eval_query(query.rhs, file, offsets)

\* One iteration of the REPL loop of repl.rs.
ReplLine(line) ==
    /\ phase = "repl"
    /\ session = "running"
    /\ \E query \in {parse(trim(line))} :
          IF query.state = "err"
          THEN out' = [kind |-> "parse error"]
          ELSE \E postings \in {repl_eval_query(query.query, postings_lists_bin,
                                                 postings_lists_offsets)} :
                   out' = [kind |-> "answer", query |-> query.query,
                           postings |-> postings,
                           count |-> Cardinality(postings)]
    /\ UNCHANGED <<session, stream, index_vars, main_vars, phase, parser_vars>>

----------------------------------------------------------------------------
(* A run of the binaries: bin/index.rs and then bin/query.rs, or main.rs   *)
(* and then the REPL of repl.rs, over the same dataset.                    *)

Init ==
    /\ input = <<>>
    /\ typed = 0
    /\ parsed = NotParsed
    /\ phase \in {"index", "main"}
    /\ Idle

Next ==
    \/ \E record \in Records : IndexRecord(record)
    \/ IndexWrite
    \/ \E line \in QueryLines : QueryLine(line)
    \/ \E record \in Records : MainRecord(record)
    \/ MainWrite
    \/ \E line \in QueryLines : ReplLine(line)

Spec == Init /\ [][Next]_vars

----------------------------------------------------------------------------
(* Properties of the parser.                                               *)

all_alphanumeric(w) == \A i \in 1..Len(w) : is_alphanumeric(w[i])

\* The text is w1 op1 w2 ... wn: whitespace-separated tokens, alphanumeric
\* words at the odd positions and OR or AND at the even ones.
IsFlatQuery(s) ==
    LET t == split_whitespace(s)
    IN  /\ Len(t) % 2 = 1
        /\ \A i \in 1..Len(t) :
              IF i % 2 = 1 THEN all_alphanumeric(t[i]) ELSE t[i] \in {OR, AND}

\* The words of the token list t up to its first AND operator.
RECURSIVE FirstRun(_)
FirstRun(t) ==
    IF Len(t) = 1 \/ t[2] = AND THEN <<t[1]>>
    ELSE <<t[1]>> \o FirstRun(SubSeq(t, 3, Len(t)))

RECURSIVE OrChain(_)
OrChain(ws) ==
    IF Len(ws) = 1 THEN Word(ws[1]) ELSE Or(Word(ws[1]), OrChain(Tail(ws)))

\* Split at every AND, each OR-run a right-nested Or chain, the runs joined
\* in a right-nested And chain.
RECURSIVE AndOfOrRuns(_)
AndOfOrRuns(t) ==
    LET run == FirstRun(t)
        used == 2 * Len(run) - 1
    IN  IF used = Len(t) THEN OrChain(run)
        ELSE And(OrChain(run), AndOfOrRuns(SubSeq(t, used + 2, Len(t))))

\* C1: a parenthesis-free query w1 op1 w2 ... wn parses to the AST obtained
\* by splitting at every AND, nesting each OR-run to the right and joining
\* the runs in a right-nested And chain; so does the query with one more
\* operator and word after it.
C1_FlatQueryShape ==
    (parsed # NotParsed /\ IsFlatQuery(input))
        => /\ parsed = Parsed(AndOfOrRuns(split_whitespace(input)))
           /\ \A op \in {OR, AND} : \A w \in {<<"a">>, <<"c", "b">>} :
                 parse(input \o <<" ">> \o op \o <<" ">> \o w)
                     = Parsed(AndOfOrRuns(split_whitespace(input) \o <<op, w>>))

\* A flat query "x OR y AND z" was parsed to And(Or(x, y), z).
C1_Witness ==
    /\ parsed.state = "ok"
    /\ IsFlatQuery(input)
    /\ Len(split_whitespace(input)) = 5
    /\ parsed.query.kind = "And"
    /\ parsed.query.lhs.kind = "Or"

RECURSIVE HasEmptyWord(_)
HasEmptyWord(q) ==
    IF q.kind = "Word" THEN q.text = <<>>
    ELSE HasEmptyWord(q.lhs) \/ HasEmptyWord(q.rhs)

\* C2: parse fails whenever a primary expression is expected but absent:
\* no AST returned by parse contains a Word node whose text is empty.
C2_NoEmptyWord ==
    parsed.state = "ok" => ~HasEmptyWord(parsed.query)

\* The number of '(' of s left open, a ')' closing the nearest open one.
RECURSIVE OpenDepth(_, _)
OpenDepth(s, d) ==
    IF s = <<>> THEN d
    ELSE OpenDepth(Tail(s),
                   IF Head(s) = "(" THEN d + 1
                   ELSE IF Head(s) = ")" /\ d > 0 THEN d - 1
                   ELSE d)

UnmatchedOpen(s) == OpenDepth(s, 0) > 0

\* Non-whitespace text is left after one complete expression.
TrailingText(s) == LET e == expr(s) IN e.ok /\ trim_end(e.rest) # <<>>

\* Two neighbouring whitespace-separated tokens are both lowercase words.
AdjacentWords(s) ==
    LET t == split_whitespace(s)
        Lower(w) == \A i \in 1..Len(w) : w[i] \in Lowercase
    IN  \E i \in 1..(Len(t) - 1) : Lower(t[i]) /\ Lower(t[i + 1])

\* C3: parse fails on every input with an unmatched '(' and on every input
\* that leaves non-whitespace text after one complete expression; trailing
\* whitespace alone is accepted.
C3_RejectsUnmatchedAndTrailing ==
    parsed # NotParsed =>
        /\ UnmatchedOpen(input) => parsed = Failed
        /\ TrailingText(input) => parsed = Failed
        /\ AdjacentWords(input) => parsed = Failed
        /\ parsed.state = "ok" => parse(input \o <<" ">>) = parsed

\* An input with an unclosed '(' was handed to parse, and it failed.
C3_Witness ==
    /\ parsed = Failed
    /\ UnmatchedOpen(input)
    /\ \E i \in 1..Len(input) : input[i] \in Lowercase
    /\ expr(input) = ParseError

\* C4: a parenthesized sub-expression is one primary whose AST is that of
\* the enclosed expression: parse("(" e ")") = parse(e),
\* parse("(" e ") OR b") = Or(parse(e), b) and
\* parse("a AND (" e ")") = And(a, parse(e)).
C4_ParenIsPrimary ==
    parsed.state = "ok" =>
        /\ parse(<<"(">> \o input \o <<")">>) = parsed
        /\ parse(<<"(">> \o input \o <<")", " ">> \o OR \o <<" ", "b">>)
              = Parsed(Or(parsed.query, Word(<<"b">>)))
        /\ parse(<<"a", " ">> \o AND \o <<" ", "(">> \o input \o <<")">>)
              = Parsed(And(Word(<<"a">>), parsed.query))

\* "(x AND y)" was parsed, to And(x, y).
C4_Witness ==
    /\ parsed.state = "ok"
    /\ starts_with(input, <<"(">>)
    /\ input[Len(input)] = ")"
    /\ parsed.query.kind = "And"
    /\ ~HasEmptyWord(parsed.query)

----------------------------------------------------------------------------
(* Properties of the builds, the lookups and the evaluators.               *)

\* The zero-based positions of the records read whose title has a
\* whitespace-delimited token whose lowercase form is w.
TitleMatches(w) ==
    {k \in 0..(Len(stream) - 1) :
        \E i \in 1..Len(split_whitespace(stream[k + 1].title)) :
            to_lowercase(split_whitespace(stream[k + 1].title)[i]) = w}

\* C5: after the build of bin/index.rs, for every word w of the index the
\* page-pruning lookup of Word(w) returns exactly the surrogate ids of the
\* documents whose title has a token that lowercases to w.
C5_IndexedWordLookup ==
    phase = "query" =>
        /\ \A w \in DOMAIN postings_lists :
              eval_query(Word(w), postings_lists_parquet) = TitleMatches(w)
        /\ (out.kind = "answer" /\ out.query.kind = "Word"
               /\ out.query.text \in DOMAIN postings_lists)
              => out.postings = TitleMatches(out.query.text)

\* The REPL looked up an indexed word of a four-word index (two row groups)
\* and found two documents or more.
C5_Witness ==
    /\ phase = "query"
    /\ Len(postings_lists_parquet) = 4
    /\ out.kind = "answer"
    /\ out.query.kind = "Word"
    /\ out.query.text \in DOMAIN postings_lists
    /\ Cardinality(out.postings) >= 2

\* The evaluator of the running REPL.
Evaluate(q) ==
    IF phase = "query" THEN eval_query(q, postings_lists_parquet)
    ELSE repl_eval_query(q, postings_lists_bin, postings_lists_offsets)

Node(kind, l, r) == IF kind = "And" THEN And(l, r) ELSE Or(l, r)

\* C6: eval_query(And(A, B)) is the intersection and eval_query(Or(A, B))
\* the union of the results of A and B, so swapping the children of a node
\* or reassociating a chain leaves the result unchanged.
C6_SetAlgebra ==
    (out.kind = "answer" /\ out.query.kind # "Word") =>
        LET q == out.query
        IN  /\ q.kind = "And" => out.postings = Evaluate(q.lhs) \cap Evaluate(q.rhs)
            /\ q.kind = "Or" => out.postings = Evaluate(q.lhs) \cup Evaluate(q.rhs)
            /\ Evaluate(Node(q.kind, q.rhs, q.lhs)) = out.postings
            /\ q.rhs.kind = q.kind =>
                  Evaluate(Node(q.kind, Node(q.kind, q.lhs, q.rhs.lhs), q.rhs.rhs))
                      = out.postings
            /\ Evaluate(q) = out.postings

\* bin/query.rs answered an And whose children have different, overlapping
\* results.
C6_Witness ==
    /\ phase = "query"
    /\ out.kind = "answer"
    /\ out.query.kind = "And"
    /\ out.postings # {}
    /\ Evaluate(out.query.lhs) # Evaluate(out.query.rhs)

\* C7: for every word w of the offsets map written by main.rs,
\* find_postings_list(w) returns exactly the posting list built for w.
C7_OffsetLookupOfPresentWord ==
    phase = "repl" =>
        \A w \in DOMAIN postings_lists_offsets :
            find_postings_list(w, postings_lists_bin, postings_lists_offsets)
                = postings_lists[w]

\* Words to look up, in and out of any index built here.
ProbeWords ==
    { <<>>, <<"a">>, <<"b">>, <<"c">>, <<"d">>, <<"n">>, <<"A">>, <<"B">>,
      <<"a", "a">>, <<"a", "b">>, <<"c", "a">> }

\* C8: a word never seen during the build is looked up to the empty set, in
\* the sorted offset index and in the page-pruning lookup, whether or not
\* the binary search finds a page.
C8_AbsentWordIsEmpty ==
    /\ phase = "query" =>
          \A w \in ProbeWords \ DOMAIN postings_lists :
              find_postings_list_parquet(w, postings_lists_parquet) = {}
    /\ phase = "repl" =>
          \A w \in ProbeWords \ DOMAIN postings_lists :
              find_postings_list(w, postings_lists_bin, postings_lists_offsets) = {}
    /\ (out.kind = "answer" /\ out.query.kind = "Word"
           /\ out.query.text \notin DOMAIN postings_lists)
          => out.postings = {}

\* bin/query.rs looked up a word that is not in the index but lies within
\* the (min, max) range of a page: the page is selected, no row matches.
C8_Witness ==
    /\ phase = "query"
    /\ out.kind = "answer"
    /\ out.query.kind = "Word"
    /\ out.query.text \notin DOMAIN postings_lists
    /\ Len(row_group_selectors(postings_lists_parquet, 0, out.query.text)) = 3
    /\ out.postings = {}

\* C9: in both builds the k-th record read (from 0) has id k: every token
\* of its title is pushed with k, and every id of every posting list is the
\* position of a record read whose title has the word.
C9_DenseIdsPerDocument ==
    phase \in {"index", "main", "query", "repl"} =>
        /\ \A w \in DOMAIN postings_lists : postings_lists[w] \subseteq TitleMatches(w)
        /\ \A k \in 0..(Len(stream) - 1) :
              \A i \in 1..Len(split_whitespace(stream[k + 1].title)) :
                  LET w == to_lowercase(split_whitespace(stream[k + 1].title)[i])
                  IN  w \in DOMAIN postings_lists /\ k \in postings_lists[w]

\* The part of C9 that is about bin/index.rs alone, which holds.
C9_DenseIdsInIndexRs ==
    phase \in {"index", "query"} =>
        /\ \A w \in DOMAIN postings_lists : postings_lists[w] = TitleMatches(w)
        /\ \A i \in 1..Len(builders) : builders[i].id = i - 1

\* C10: in the REPL of bin/query.rs, over the files of a dataset that is
\* not empty, every line is answered and the loop goes on to the next line:
\* a line that parses gets its count, rows and groups without the session
\* failing, whatever the result set.
C10_EveryLineAnswered ==
    (phase = "query" /\ Len(stream) >= 1) =>
        /\ session = "running"
        /\ out.kind = "answer" => ~out.panicked

\* The lines that do get through: a parse error, or five groups or more.
C10_SurvivingLines ==
    phase = "query" =>
        (session = "panicked"
            <=> (out.kind = "answer" /\ Len(out.groups) < GroupsShown))

----------------------------------------------------------------------------
(* Properties of the retrieval and of the aggregation of bin/query.rs.     *)

\* The surrogate ids of the rows of stored_fields.parquet.
StoredIds == {stored_fields_parquet[i].id : i \in 1..Len(stored_fields_parquet)}

\* The rows (by position in the file) whose id is in R.
RowsIn(R) ==
    {i \in 1..Len(stored_fields_parquet) : stored_fields_parquet[i].id \in R}

\* The rows in R whose date (null included) no earlier row in R has.
FirstSeen(R) ==
    {i \in RowsIn(R) :
        \A j \in RowsIn(R) :
            j < i => stored_fields_parquet[j].date # stored_fields_parquet[i].date}

\* The rows in R with the date of row p.
SameDate(R, p) ==
    {i \in RowsIn(R) : stored_fields_parquet[i].date = stored_fields_parquet[p].date}

ScoreOf(i) ==
    IF stored_fields_parquet[i].score.some
    THEN stored_fields_parquet[i].score.v ELSE 0

RECURSIVE SumScores(_)
SumScores(I) ==
    IF I = {} THEN 0
    ELSE LET i == min_of(I) IN ScoreOf(i) + SumScores(I \ {i})

RECURSIVE SumSeq(_)
SumSeq(seq) == IF seq = <<>> THEN 0 ELSE Head(seq) + SumSeq(Tail(seq))

\* The groups expected for R: one per first-seen row, in row order.
ExpectedGroups(R) ==
    LET first == ascending(FirstSeen(R))
    IN  [date |-> [k \in 1..Len(first) |->
                      date_value(stored_fields_parquet[first[k]].date)],
         score |-> [k \in 1..Len(first) |-> SumScores(SameDate(R, first[k]))],
         count |-> [k \in 1..Len(first) |-> Cardinality(SameDate(R, first[k]))]]

\* C11: for every result set R, group_scores_by_date(R) emits one group per
\* distinct date among the stored rows whose id is in R, in the order in
\* which each date is first seen in row order, with the number of such rows
\* as count and the sum of their scores (null as 0) as sum; so the counts add
\* up to |R| and the sums to the sum of score over R.
C11_GroupsByDate ==
    phase = "query" =>
        \A R \in SUBSET StoredIds :
            \E groups \in {group_scores_by_date(R, stored_fields_parquet)} :
                /\ groups = ExpectedGroups(R)
                /\ SumSeq(groups.count) = Cardinality(R)
                /\ SumSeq(groups.score) = SumScores(RowsIn(R))

\* The REPL answered a query whose result has two rows of one date, a row
\* with a null date and a row with a null score: three groups or more.
C11_Witness ==
    /\ phase = "query"
    /\ out.kind = "answer"
    /\ Cardinality(FirstSeen(out.postings)) >= 3
    /\ \E p \in FirstSeen(out.postings) :
          Cardinality(SameDate(out.postings, p)) >= 2
    /\ \E i \in RowsIn(out.postings) : ~stored_fields_parquet[i].date.some
    /\ \E i \in RowsIn(out.postings) : ~stored_fields_parquet[i].score.some

\* C12: over the stored fields written by bin/index.rs, for every result
\* set R retrieve_stored_fields(R) returns exactly the rows whose surrogate
\* id is in R, each once, in ascending order of surrogate id, each with the
\* natural id and the title of the record that got that surrogate id in
\* the build.
C12_RetrieveExactRows ==
    phase = "query" =>
        /\ \A R \in SUBSET StoredIds :
              \E documents \in {retrieve_stored_fields(R, stored_fields_parquet)} :
                  /\ Len(documents) = Cardinality(R)
                  /\ {documents[i].roaring_id : i \in 1..Len(documents)} = R
                  /\ \A i \in 1..(Len(documents) - 1) :
                        documents[i].roaring_id < documents[i + 1].roaring_id
                  /\ \A i \in 1..Len(documents) :
                        /\ documents[i].doc_id = stream[documents[i].roaring_id + 1].id
                        /\ documents[i].title = stream[documents[i].roaring_id + 1].title
        /\ out.kind = "answer" =>
              out.documents =
                  take(retrieve_stored_fields(out.postings, stored_fields_parquet),
                       DocumentsShown)

\* The REPL showed the rows of a result of two documents or more that
\* leaves out a row of the file lying before one of its own.
C12_Witness ==
    /\ phase = "query"
    /\ out.kind = "answer"
    /\ Len(out.documents) >= 2
    /\ \E i \in StoredIds \ out.postings : i < max_of(out.postings)
    /\ \A i \in 1..Len(out.documents) :
          out.documents[i].doc_id = stream[out.documents[i].roaring_id + 1].id

----------------------------------------------------------------------------
(* Properties of the pushes of the two builds.                             *)

\* The list of a word in the lists built so far, empty when it has none.
ListOf(lists, word) == IF word \in DOMAIN lists THEN lists[word] ELSE {}

\* Every push of the loop over the words of a title of bin/index.rs offers
\* an id that is at least the maximum of the word's list; a push of the
\* maximum leaves the list as it is, a push above it adds the id.
RECURSIVE PushesAscending(_, _, _)
PushesAscending(lists, words, id) ==
    IF words = <<>> THEN TRUE
    ELSE LET word == to_lowercase(Head(words))
             list == ListOf(lists, word)
         IN  IF word = <<>> THEN PushesAscending(lists, Tail(words), id)
             ELSE /\ list = {} \/ id >= max_of(list)
                  /\ (list # {} /\ id = max_of(list)) => push(list, id) = list
                  /\ (list = {} \/ id > max_of(list))
                        => push(list, id) = list \cup {id}
                  /\ PushesAscending(push_word(lists, word, id), Tail(words), id)

\* The serialized ids of a posting list are strictly ascending.
StrictlyAscending(ids) == \A i \in 1..(Len(ids) - 1) : ids[i] < ids[i + 1]

\* C13: at every point of the build pass of bin/index.rs and of main.rs each
\* push offers an id that is at least the maximum of that word's list, a
\* push of the maximum leaves the list unchanged, the lists are written
\* strictly ascending, and a word occurring several times in one title
\* contributes one id for that document: a list has as many ids as there
\* are documents whose title has the word.
C13_AscendingPushesOncePerDocument ==
    /\ phase = "index" =>
          \A record \in Records :
              ~already_read(record) =>
                  PushesAscending(postings_lists,
                                  split_whitespace(record.title), Len(stream))
    /\ phase = "main" =>
          \A record \in Records :
              ~already_read(record) =>
                  main_title_words([lists |-> postings_lists,
                                    roaring_id |-> roaring_id,
                                    asserted |-> TRUE],
                                   split_whitespace(record.title)).asserted
    /\ phase = "query" =>
          \A i \in 1..Len(postings_lists_parquet) :
              StrictlyAscending(Tail(postings_lists_parquet[i].postings_list))
    /\ phase \in {"index", "main", "query", "repl"} =>
          \A w \in DOMAIN postings_lists :
              Cardinality(postings_lists[w]) = Cardinality(TitleMatches(w))

\* The part of C13 that is about bin/index.rs alone, which holds: the next
\* title's pushes are in order, and a title with a word twice ("A  a")
\* adds its id to the list of the word once.
C13_InIndexRs ==
    /\ phase = "index" =>
          \A record \in Records :
              ~already_read(record) =>
                  PushesAscending(postings_lists,
                                  split_whitespace(record.title), Len(stream))
    /\ phase \in {"index", "query"} =>
          /\ \A w \in DOMAIN postings_lists :
                Cardinality(postings_lists[w]) = Cardinality(TitleMatches(w))
          /\ \A i \in 1..Len(postings_lists_parquet) :
                StrictlyAscending(Tail(postings_lists_parquet[i].postings_list))

----------------------------------------------------------------------------
(* Properties of the words of a parsed query and of their lookup.          *)

\* The texts of the Word nodes of a query.
RECURSIVE WordsOf(_)
WordsOf(q) ==
    IF q.kind = "Word" THEN {q.text} ELSE WordsOf(q.lhs) \cup WordsOf(q.rhs)

\* The maximal runs of alphanumeric characters of s.
MaximalRuns(s) ==
    {SubSeq(s, i, j) : <<i, j>> \in
        {r \in (1..Len(s)) \X (1..Len(s)) :
            /\ r[1] <= r[2]
            /\ \A k \in r[1]..r[2] : is_alphanumeric(s[k])
            /\ r[1] = 1 \/ ~is_alphanumeric(s[r[1] - 1])
            /\ r[2] = Len(s) \/ ~is_alphanumeric(s[r[2] + 1])}}

\* C14: in every AST returned by parse the text of each Word node is a
\* maximal run of alphanumeric characters of the input, the characters next
\* to it on either side not being alphanumeric; OR and AND are recognized
\* as whole tokens only. (Queries with an empty Word are left aside.)
C14_WordsAreMaximalRuns ==
    (parsed.state = "ok" /\ ~HasEmptyWord(parsed.query)) =>
        \A w \in WordsOf(parsed.query) : w \in MaximalRuns(input)

\* A run of the input is an operator with more alphanumeric characters
\* after it ("ORb", "ANDa", "ORAND").
GluedOperator(s) ==
    \E run \in MaximalRuns(s) :
        \/ starts_with(run, OR) /\ Len(run) > Len(OR)
        \/ starts_with(run, AND) /\ Len(run) > Len(AND)

\* What does hold of the words of parse: they are maximal runs of the input
\* unless one of its runs begins with an operator and goes on.
C14_MaximalUnlessGlued ==
    (parsed.state = "ok" /\ ~HasEmptyWord(parsed.query)
        /\ ~GluedOperator(input)) =>
        \A w \in WordsOf(parsed.query) : w \in MaximalRuns(input)

\* Words that differ from their lowercase form.
CasedWords == { <<"A">>, <<"B">>, <<"D">>, <<"A", "b">>, <<"a", "B">> }

\* The records read whose title has the token w as it is written.
TitleHasVerbatim(w) ==
    {k \in 0..(Len(stream) - 1) :
        \E i \in 1..Len(split_whitespace(stream[k + 1].title)) :
            split_whitespace(stream[k + 1].title)[i] = w}

\* C15: every key of the index built by bin/index.rs is its own lowercase
\* form and eval_query hands the text of a Word to the lookup as it is, so
\* a Word whose text differs from its lowercase form evaluates to the empty
\* set, even when titles have that word and its lowercase form is a key.
C15_NoCaseFoldingOfQueryWords ==
    phase = "query" =>
        /\ \A w \in DOMAIN postings_lists : to_lowercase(w) = w
        /\ \A i \in 1..Len(postings_lists_parquet) :
              to_lowercase(postings_lists_parquet[i].word)
                  = postings_lists_parquet[i].word
        /\ \A w \in CasedWords \cup ProbeWords :
              /\ eval_query(Word(w), postings_lists_parquet)
                    = find_postings_list_parquet(w, postings_lists_parquet)
              /\ to_lowercase(w) # w
                    => eval_query(Word(w), postings_lists_parquet) = {}
        /\ (out.kind = "answer" /\ out.query.kind = "Word"
               /\ to_lowercase(out.query.text) # out.query.text)
              => out.postings = {}

\* The REPL was asked for "A" over an index that has the key "a" and a
\* title with the token "A", and answered the empty set.
C15_Witness ==
    /\ phase = "query"
    /\ out.kind = "answer"
    /\ out.query = Word(<<"A">>)
    /\ <<"a">> \in DOMAIN postings_lists
    /\ TitleHasVerbatim(<<"A">>) # {}
    /\ out.postings = {}

====
